---------------------------- MODULE Spec2Model ----------------------------
(***************************************************************************)
(* Model of the Wikipedia stadium pipeline:                                *)
(*   src/pipelines/wikipedia_pipeline.py  clean_text,                      *)
(*       extract_wikipedia_data, get_lat_long, transform_wikipedia_data,   *)
(*       wikipedia_data_pipeline                                           *)
(*   src/findtable.py                     get_wikipedia_data               *)
(*                                                                         *)
(* A Python str is a sequence of one-character strings.  The character     *)
(* U+2666 (black diamond) is written "<diamond>".                          *)
(***************************************************************************)
EXTENDS Integers, Sequences, FiniteSets, TLC

VARIABLES
    text,       \* clean_text: the argument
    cleaned,    \* clean_text: the returned string
    cpc,        \* clean_text: "start" | "done"
    html,       \* extract_wikipedia_data: the parsed document (sequence of tables)
    table,      \* extract_wikipedia_data: position of tables[0] in the document, 0 before
    rows,       \* extract_wikipedia_data: tables[0].find_all('tr')
    i,          \* extract_wikipedia_data: the loop index
    data,       \* extract_wikipedia_data: the list of dicts
    epc,        \* extract_wikipedia_data: "idle" | "start" | "loop" | "returned" | "none" | "raised"
    ftResult,   \* findtable.get_wikipedia_data: [status, table, data]
    df,         \* transform_wikipedia_data: stadiums_df, one entry per row
    k,          \* transform_wikipedia_data: the row apply() is at
    calls,      \* get_lat_long: number of calls made for each row of df
    first,      \* the location each row got in the first pass
    second,     \* the location each re-queried row got in the second pass
    tpc,        \* transform_wikipedia_data: "idle" | "start" | "first" | "cast" | "dups" | "second" | "update" | "done" | "raised"
    err,        \* the exception that ended extract or transform, "" when none:
                \* "IndexError" | "KeyError" | "ValueError(astype)" |
                \* "ValueError(setitem)" | "GeocoderServiceError"
    url,        \* wikipedia_data_pipeline: the url argument
    fpc,        \* wikipedia_data_pipeline: "off" | "start" | "extract" | "transform" | "end" | "crashed"
    log,        \* history: the stage calls of the flow, with their arguments
    csv         \* the file written by to_csv, "none" before

cleanVars == <<text, cleaned, cpc>>
extractVars == <<html, table, rows, i, data, epc, ftResult>>
transformVars == <<df, k, calls, first, second, tpc>>
flowVars == <<url, fpc, log, csv>>
vars == <<text, cleaned, cpc, html, table, rows, i, data, epc, ftResult,
          df, k, calls, first, second, tpc, err, url, fpc, log, csv>>

---------------------------------------------------------------------------
(* Python str operations                                                   *)

\* pat occurs in s at 1-based position p
OccursAt(s, pat, p) ==
    /\ p + Len(pat) - 1 <= Len(s)
    /\ \A j \in 1..Len(pat) : s[p + j - 1] = pat[j]

\* str.find: the 0-based index of the first occurrence of pat, -1 when absent
Find(s, pat) ==
    IF \E p \in 1..Len(s) : OccursAt(s, pat, p)
    THEN (CHOOSE p \in 1..Len(s) :
              /\ OccursAt(s, pat, p)
              /\ \A q \in 1..(p - 1) : ~OccursAt(s, pat, q)) - 1
    ELSE -1

\* pat in s
Contains(s, pat) == Find(s, pat) # -1

\* s.split(pat)[0]: the part before the first occurrence, all of s when absent
SplitFirst(s, pat) ==
    IF Find(s, pat) = -1 THEN s ELSE SubSeq(s, 1, Find(s, pat))

\* s.split(pat)[1:] joined back: what follows the first occurrence
AfterFirst(s, pat) == SubSeq(s, Find(s, pat) + Len(pat) + 1, Len(s))

\* s.replace(pat, ''): one left-to-right pass over non-overlapping occurrences
RECURSIVE Remove(_, _)
Remove(s, pat) ==
    IF Find(s, pat) = -1 THEN s
    ELSE SubSeq(s, 1, Find(s, pat)) \o Remove(AfterFirst(s, pat), pat)

IsSpace(c) == c \in {" ", "\n", "\t"}

RECURSIVE LStrip(_)
LStrip(s) == IF s # <<>> /\ IsSpace(Head(s)) THEN LStrip(Tail(s)) ELSE s

RECURSIVE RStrip(_)
RStrip(s) ==
    IF s # <<>> /\ IsSpace(s[Len(s)]) THEN RStrip(SubSeq(s, 1, Len(s) - 1)) ELSE s

\* str.strip()
Strip(s) == RStrip(LStrip(s))

\* Python truth value of an int
Truthy(n) == n # 0

---------------------------------------------------------------------------
(* clean_text                                                              *)

NBSP == <<"&", "n", "b", "s", "p">>
DIAMOND == <<" ", "<diamond>">>
BRACKET == <<"[">>
FORMERLY == <<" ", "(", "f", "o", "r", "m", "e", "r", "l", "y", ")">>
NEWLINE == <<"\n">>

clean_text(t) ==
    LET t1 == Strip(t)
        t2 == Remove(t1, NBSP)
        t3 == IF Truthy(Find(t2, DIAMOND)) THEN SplitFirst(t2, DIAMOND) ELSE t2
        t4 == IF Find(t3, BRACKET) # -1 THEN SplitFirst(t3, BRACKET) ELSE t3
        t5 == IF Find(t4, FORMERLY) # -1 THEN SplitFirst(t4, FORMERLY) ELSE t4
    IN  Remove(t5, NEWLINE)

---------------------------------------------------------------------------
(* Documents.  A document is the sequence of its <table> elements in       *)
(* document order; a table has its class tokens and its <tr> rows; a row   *)
(* is the sequence of its <td> cells (a header row of <th> cells has       *)
(* none); a cell has its text and, when it embeds an <img>, the src.       *)

PRIMARY == {"wikitable", "sortable", "jquery-tablesorter"}
SECONDARY == {"wikitable", "standard"}

\* the sentinel of line 7, kept as one symbol
NO_IMAGE == <<"https://upload.wikimedia.org/wikipedia/commons/thumb/0/0a/No-image-available.png/480px-No-image-available.png">>
HTTPS == <<"h", "t", "t", "p", "s", ":", "/", "/">>
SLASHES == <<"/", "/">>
COMMA == <<",">>
PERIOD == <<".">>

\* soup.find_all("table", {"class": [...]}): BeautifulSoup matches a tag that
\* carries at least one of the listed class tokens; positions in document order
find_all_tables(doc, tokens) ==
    {t \in 1..Len(doc) : doc[t].cls \cap tokens # {}}

\* tables[0]
FirstTable(found) == CHOOSE t \in found : \A u \in found : t <= u

\* the dict appended for a row without 3 cells: {} (a row of NaN in the DataFrame);
\* the other fields are placeholders that are read only when filled is TRUE
EmptyDict ==
    [filled |-> FALSE, rank |-> 0, stadium |-> <<>>, capacity |-> <<>>,
     region |-> <<>>, country |-> <<>>, city |-> <<>>, images |-> <<>>,
     home_team |-> <<>>]

\* a mutant of RankOf: a 0-based row counter
RankZeroBased(idx) == idx - 1

\* values['rank'] = i
RankOf(idx) == idx

\* tds[5].find('img').get('src').split("//")[1]
ImagePath(src) == SplitFirst(AfterFirst(src, SLASHES), SLASHES)

\* line 112 raises IndexError: tds[5] on a row of fewer than 6 cells, or
\* split("//")[1] on a src without "//"
RowRaises(tds) ==
    /\ Len(tds) >= 3
    /\ \/ Len(tds) < 6
       \/ tds[6].hasImg /\ ~Contains(tds[6].src, SLASHES)

\* lines 106-113; tds is 1-based here, so tds[j+1] is Python's tds[j]
RowValues(idx, tds) ==
    [filled    |-> TRUE,
     rank      |-> RankOf(idx),
     stadium   |-> clean_text(tds[1].text),
     capacity  |-> Remove(Remove(clean_text(tds[2].text), COMMA), PERIOD),
     region    |-> IF Len(tds) > 2 THEN clean_text(tds[3].text) ELSE <<>>,
     country   |-> IF Len(tds) > 3 THEN clean_text(tds[4].text) ELSE <<>>,
     city      |-> IF Len(tds) > 4 THEN clean_text(tds[5].text) ELSE <<>>,
     images    |-> IF tds[6].hasImg THEN HTTPS \o ImagePath(tds[6].src) ELSE NO_IMAGE,
     home_team |-> IF Len(tds) > 6 THEN clean_text(tds[7].text) ELSE <<>>]

\* lines 102-117: the dict the loop body appends for row idx
RowDict(idx, tds) == IF Len(tds) >= 3 THEN RowValues(idx, tds) ELSE EmptyDict

---------------------------------------------------------------------------
(* findtable.py                                                            *)

\* findtable.clean_text
ft_clean_text(t) == Remove(Strip(t), NEWLINE)

FtEmptyDict ==
    [filled |-> FALSE, rank |-> 0, stadium |-> <<>>, capacity |-> <<>>, region |-> <<>>]

\* findtable.py lines 41-53
FtRowDict(idx, tds) ==
    IF Len(tds) >= 3
    THEN [filled   |-> TRUE,
          rank     |-> idx,
          stadium  |-> ft_clean_text(tds[1].text),
          capacity |-> Remove(Remove(ft_clean_text(tds[2].text), COMMA), PERIOD),
          region   |-> IF Len(tds) > 2 THEN ft_clean_text(tds[3].text) ELSE <<>>]
    ELSE FtEmptyDict

\* findtable.py lines 29-36: the primary list, then the alternative list
FtLocate(doc) ==
    LET prim == find_all_tables(doc, PRIMARY)
        tables == IF prim = {} THEN find_all_tables(doc, SECONDARY) ELSE prim
    IN  IF tables # {} THEN FirstTable(tables) ELSE 0

\* findtable.get_wikipedia_data, lines 29-55
FtGetData(doc) ==
    LET t == FtLocate(doc)
        trs == doc[t].trs
    IN  IF t = 0
        THEN [status |-> "none", table |-> 0, data |-> <<>>]
        ELSE [status |-> "data", table |-> t,
              data |-> [n \in 1..(IF Len(trs) = 0 THEN 0 ELSE Len(trs) - 1)
                            |-> FtRowDict(n, trs[n + 1])]]

---------------------------------------------------------------------------
(* Bounds and the inputs built within them                                 *)

MaxPieces == 5      \* pieces a cell text handed to clean_text is built from
MaxRows == 3        \* data rows of a table
MaxCells == 7       \* <td> cells of a row
MaxTables == 2      \* tables of a document
MaxRecords == 3     \* rows of the DataFrame handed to transform_wikipedia_data
MaxFlowRows == 2    \* data rows of the markup handed to the flow

Digit == <<"1", "2", "3", "4", "5", "6", "7", "8", "9">>
ColLetter == <<"S", "0", "R", "C", "T", "I", "H", "X", "Y", "Z">>

\* the text of cell c of data row r: layout noise that clean_text removes
\* around a token naming the cell; the capacity cell (c = 2) holds digits with
\* both separators, or "N/A" when cap is "nan"
CellText(r, c, cap) ==
    IF c = 2
    THEN IF cap = "num" THEN <<Digit[r], ",", "0", ".", "5", "[", "1", "]">>
                        ELSE <<"N", "/", "A">>
    ELSE <<"\n", ColLetter[c], Digit[r], "[", "a", "]", " ">>

\* a protocol-relative src, as Wikipedia serves it
ImgSrc(img) == IF img = "ok" THEN <<"/", "/", "u", "/", "x">> ELSE <<>>

Cell(r, c, kind) ==
    [text   |-> CellText(r, c, kind.cap),
     hasImg |-> c = 6 /\ kind.img # "none",
     src    |-> IF c = 6 THEN ImgSrc(kind.img) ELSE <<>>]

\* a row kind: the number of cells, the image of cell 5 and the capacity text
RowKinds(caps) ==
    {[n |-> n, img |-> "none", cap |-> c] : n \in 0..MaxCells, c \in caps}
    \cup {[n |-> n, img |-> m, cap |-> c] :
              n \in 6..MaxCells, m \in {"ok"}, c \in caps}

Row(r, kind) == [c \in 1..kind.n |-> Cell(r, c, kind)]

\* a header row of <th> cells, then one data row per kind
Trs(kinds) == <<<< >>>> \o [r \in 1..Len(kinds) |-> Row(r, kinds[r])]

SeqsUpTo(S, n) == UNION {[1..m -> S] : m \in 0..n}

FullKind == [n |-> 7, img |-> "ok", cap |-> "num"]

\* documents of one primary-class table, over every choice of data rows,
\* and the table with no row at all
RowDocs ==
    {<<[cls |-> PRIMARY, trs |-> Trs(ks)]>> : ks \in SeqsUpTo(RowKinds({"num"}), MaxRows)}
    \cup {<<[cls |-> PRIMARY, trs |-> << >>]>>}

\* documents of up to MaxTables tables over every choice of class tokens,
\* each table holding one full data row
ClassDocs ==
    {[t \in 1..Len(cs) |-> [cls |-> cs[t], trs |-> Trs(<<FullKind>>)]] :
        cs \in SeqsUpTo(SUBSET (PRIMARY \cup SECONDARY), MaxTables)}

ExtractDocs == RowDocs \cup ClassDocs

---------------------------------------------------------------------------
(* extract_wikipedia_data, lines 90-119                                    *)

idleClean == text = << >> /\ cleaned = << >> /\ cpc = "idle"
idleExtract ==
    /\ html = << >> /\ table = 0 /\ rows = << >> /\ i = 0 /\ data = << >>
    /\ epc = "idle" /\ ftResult = [status |-> "idle", table |-> 0, data |-> << >>]
idleTransform ==
    /\ df = << >> /\ k = 0 /\ calls = << >> /\ first = << >> /\ second = << >>
    /\ tpc = "idle"
idleFlow ==
    /\ url = [kind |-> "none", name |-> "", doc |-> << >>]
    /\ fpc = "off" /\ log = << >> /\ csv = [written |-> FALSE, content |-> << >>]

\* lines 90-97: locate the table, or print "No table found" and return None
ExtractLocate ==
    /\ epc = "start"
    /\ LET tables == find_all_tables(html, PRIMARY)
       IN  IF tables # {}
           THEN /\ table' = FirstTable(tables)
                /\ rows' = html[FirstTable(tables)].trs
                /\ i' = 1
                /\ epc' = "loop"
           ELSE /\ epc' = "none"
                /\ UNCHANGED <<table, rows, i>>
    /\ data' = << >>
    /\ UNCHANGED <<html, ftResult, err, cleanVars, transformVars, flowVars>>

\* lines 100-117: one iteration of for i in range(1, len(rows)); rows[i+1]
\* is Python's rows[i]
ExtractRow ==
    /\ epc = "loop"
    /\ i < Len(rows)
    /\ IF RowRaises(rows[i + 1])
       THEN /\ epc' = "raised"
            /\ err' = "IndexError"
            /\ UNCHANGED <<i, data>>
       ELSE /\ data' = Append(data, RowDict(i, rows[i + 1]))
            /\ i' = i + 1
            /\ UNCHANGED <<epc, err>>
    /\ UNCHANGED <<html, table, rows, ftResult, cleanVars, transformVars, flowVars>>

\* line 119: return pd.DataFrame(data)
ExtractReturn ==
    /\ epc = "loop"
    /\ i >= Len(rows)
    /\ epc' = "returned"
    /\ UNCHANGED <<html, table, rows, i, data, ftResult, err,
                   cleanVars, transformVars, flowVars>>

\* findtable.get_wikipedia_data on the same document
FindtableGetData ==
    /\ ftResult.status = "pending"
    /\ ftResult' = FtGetData(html)
    /\ UNCHANGED <<html, table, rows, i, data, epc, err,
                   cleanVars, transformVars, flowVars>>

InitExtract ==
    /\ html \in ExtractDocs
    /\ table = 0 /\ rows = << >> /\ i = 0 /\ data = << >>
    /\ epc = "start"
    /\ ftResult = [status |-> "pending", table |-> 0, data |-> << >>]
    /\ err = ""
    /\ idleClean /\ idleTransform /\ idleFlow

NextExtract == ExtractLocate \/ ExtractRow \/ ExtractReturn \/ FindtableGetData

SpecExtract == InitExtract /\ [][NextExtract]_vars

---------------------------------------------------------------------------
(* Properties of extract_wikipedia_data, checked under SpecExtract         *)

\* the data rows of the located table: every row after rows[0]
DataRows == 1..(Len(rows) - 1)

\* the cells of data row r
Tds(r) == rows[r + 1]

\* the extractor has located a table and is at, or past, its loop
Extracting == epc \in {"loop", "returned", "raised"}

\* the data row a record was built from: the one whose stadium cell it holds
SourceRow(d) ==
    CHOOSE r \in DataRows :
        Len(Tds(r)) >= 3 /\ clean_text(Tds(r)[1].text) = d.stadium

\* C1: the returned sequence holds exactly one record per data row of 3 or
\* more cells and nothing for a shorter row.
C1_NoRecordForShortRow ==
    epc = "returned" =>
        /\ \A n \in 1..Len(data) : data[n].filled
        /\ Len(data) = Cardinality({r \in DataRows : Len(Tds(r)) >= 3})

\* C3: every data row of 3 or more cells yields a record and never a failure:
\* stadium, capacity and region from cells 0-2, country, city and home_team
\* empty when cells 3, 4, 6 are missing, image the sentinel when cell 5 is
\* missing or holds no image.
C3_RecordForEveryRowOfThreeCells ==
    Extracting =>
        /\ epc = "raised" => Len(Tds(i)) < 3
        /\ \A r \in 1..Len(data) :
              Len(Tds(r)) >= 3 =>
                /\ data[r].filled
                /\ data[r].stadium = clean_text(Tds(r)[1].text)
                /\ data[r].region = clean_text(Tds(r)[3].text)
                /\ Len(Tds(r)) <= 3 => data[r].country = << >>
                /\ Len(Tds(r)) <= 4 => data[r].city = << >>
                /\ Len(Tds(r)) <= 6 => data[r].home_team = << >>
                /\ (Len(Tds(r)) <= 5 \/ ~Tds(r)[6].hasImg) => data[r].images = NO_IMAGE

\* C5: when a table carries a token of the primary list the locator returns
\* the first such table; when none does and a table carries a token of the
\* secondary list, it returns the first of those.
C5_LocatesFirstMatch ==
    epc \in {"loop", "returned", "raised", "none"} =>
        LET prim == find_all_tables(html, PRIMARY)
            sec == find_all_tables(html, SECONDARY)
        IN  /\ prim # {} => table = FirstTable(prim)
            /\ (prim = {} /\ sec # {}) => table = FirstTable(sec)

\* the same statement of the locator of findtable.py, which has the fallback
FtLocatesFirstMatch ==
    ftResult.status \in {"data", "none"} =>
        LET prim == find_all_tables(html, PRIMARY)
            sec == find_all_tables(html, SECONDARY)
        IN  /\ prim # {} => ftResult.table = FirstTable(prim)
            /\ (prim = {} /\ sec # {}) => ftResult.table = FirstTable(sec)

\* C7: with R data rows, the ranks of the emitted records lie in 1..R, are
\* strictly increasing in output order, and each is the 1-based position of
\* the record's row among the data rows, so a skipped row leaves a gap.
C7_RankIsRowPosition ==
    Extracting =>
        /\ \A n \in 1..Len(data) :
              data[n].filled =>
                /\ data[n].rank \in DataRows
                /\ data[n].rank = SourceRow(data[n])
        /\ \A m, n \in 1..Len(data) :
              (m < n /\ data[m].filled /\ data[n].filled) =>
                  data[m].rank < data[n].rank

\* a finished extraction of three data rows whose second row was skipped:
\* ranks 1 and 3 are emitted, rank 2 is not
C7_GapReached ==
    /\ epc = "returned"
    /\ Len(rows) = 4
    /\ Len(Tds(2)) < 3
    /\ {data[n].rank : n \in {m \in 1..Len(data) : data[m].filled}} = {1, 3}

---------------------------------------------------------------------------
(* clean_text on its own, checked under SpecClean                          *)

\* what cell texts are built from: a letter, a newline, the three markers,
\* the '&nbsp' token and the two halves of one
Pieces ==
    {<<"a">>, NEWLINE, BRACKET, DIAMOND, NBSP, FORMERLY,
     <<"&", "n", "b">>, <<"s", "p">>}

RECURSIVE Flatten(_)
Flatten(ps) == IF ps = << >> THEN << >> ELSE Head(ps) \o Flatten(Tail(ps))

InputTexts(n) == {Flatten(ps) : ps \in SeqsUpTo(Pieces, n)}

\* clean_text, lines 66-75
CleanText ==
    /\ cpc = "start"
    /\ cleaned' = clean_text(text)
    /\ cpc' = "done"
    /\ UNCHANGED <<text, err, extractVars, transformVars, flowVars>>

InitClean ==
    /\ text \in InputTexts(MaxPieces)
    /\ cleaned = << >>
    /\ cpc = "start"
    /\ err = ""
    /\ idleExtract /\ idleTransform /\ idleFlow

NextClean == CleanText

SpecClean == InitClean /\ [][NextClean]_vars

\* the 1-based positions in s at which a truncation marker starts
CutPoints(s) ==
    {p \in 1..Len(s) : \E pat \in {DIAMOND, BRACKET, FORMERLY} : OccursAt(s, pat, p)}

\* the text before the earliest truncation point of s, with the '&nbsp'
\* tokens and the newlines taken out
KeptPart(s) ==
    LET p == CHOOSE q \in CutPoints(s) : \A r \in CutPoints(s) : q <= r
    IN  Remove(Remove(SubSeq(s, 1, p - 1), NBSP), NEWLINE)

\* C6: for a text that holds '[', ' (formerly)' and '&nbsp' at once, the
\* output holds none of the three and keeps the text before the earliest
\* truncation point.
C6_NoArtifactLeft ==
    (/\ cpc = "done"
     /\ Contains(text, BRACKET)
     /\ Contains(text, FORMERLY)
     /\ Contains(text, NBSP)) =>
        /\ ~Contains(cleaned, BRACKET)
        /\ ~Contains(cleaned, FORMERLY)
        /\ ~Contains(cleaned, NBSP)
        /\ SubSeq(cleaned, 1, Len(KeptPart(Strip(text)))) = KeptPart(Strip(text))

\* C8: when the marker ' <diamond>' is in the text once it is stripped and
\* the '&nbsp' tokens are removed, the output is cut before the marker's
\* first occurrence and holds no marker.
C8_DiamondTruncated ==
    LET t2 == Remove(Strip(text), NBSP)
    IN  (cpc = "done" /\ Contains(t2, DIAMOND)) =>
            /\ ~Contains(cleaned, DIAMOND)
            /\ Len(cleaned) <= Find(t2, DIAMOND)

---------------------------------------------------------------------------
(* get_lat_long and transform_wikipedia_data, lines 123-165                *)

\* what get_lat_long returns: None, or one of two coordinates
NoLocation == [found |-> FALSE, lat |-> 0, lon |-> 0]
Coordinate(c) == [found |-> TRUE, lat |-> c, lon |-> c]
GeoResults == {NoLocation, Coordinate(1), Coordinate(2)}

DigitChars == <<"0", "1", "2", "3", "4", "5", "6", "7", "8", "9">>

\* int(s) succeeds: s is a string of decimal digits (the cell texts carry
\* no sign, underscore or inner blank)
IsIntLiteral(s) ==
    /\ s # << >>
    /\ \A j \in 1..Len(s) : \E d \in 1..10 : DigitChars[d] = s[j]

DigitValue(c) == (CHOOSE d \in 1..10 : DigitChars[d] = c) - 1

\* int(s)
RECURSIVE ParseInt(_)
ParseInt(s) ==
    IF s = << >> THEN 0
    ELSE 10 * ParseInt(SubSeq(s, 1, Len(s) - 1)) + DigitValue(s[Len(s)])

\* a mutant of Duplicated: duplicated(keep=False), every member of a group
DuplicatedKeepNone(locs, n) ==
    \E m \in 1..Len(locs) : m # n /\ locs[m] = locs[n]

\* stadiums_df.duplicated(['location']) at row n: keep='first' marks a row
\* whose location an earlier row has; None equals None
Duplicated(locs, n) == \E m \in 1..(n - 1) : locs[m] = locs[n]

\* the rows of `duplicates`, line 161
DuplicateRows(frame) ==
    {n \in 1..Len(frame) : Duplicated([m \in 1..Len(frame) |-> frame[m].location], n)}

\* DataFrame.update at one cell: a non-NA value of other replaces the own one
UpdateCell(own, other) == IF other.found THEN other ELSE own

\* line 157, x if x not in ['NO_IMAGE', '', None] else NO_IMAGE; a NaN stays
FixImage(d) ==
    IF d.filled /\ d.images \in {<<"N", "O", "_", "I", "M", "A", "G", "E">>, << >>}
    THEN NO_IMAGE ELSE d.images

\* line 155: stadiums_df = data.copy().  A frame built from no dict, or from
\* empty dicts only, has no column: x['country'] of line 156 (or, with no
\* row, stadiums_df['images'] of line 157) raises KeyError.
TransformStart ==
    /\ tpc = "start"
    /\ IF \E n \in 1..Len(data) : data[n].filled
       THEN /\ df' = [n \in 1..Len(data) |->
                         [filled |-> data[n].filled, rank |-> data[n].rank,
                          stadium |-> data[n].stadium, capacity |-> data[n].capacity,
                          region |-> data[n].region, country |-> data[n].country,
                          city |-> data[n].city, images |-> data[n].images,
                          home_team |-> data[n].home_team, location |-> NoLocation]]
            /\ calls' = [n \in 1..Len(data) |-> 0]
            /\ first' = [n \in 1..Len(data) |-> NoLocation]
            /\ second' = [n \in 1..Len(data) |-> NoLocation]
            /\ k' = 1
            /\ tpc' = "first"
            /\ UNCHANGED err
       ELSE /\ tpc' = "raised"
            /\ err' = "KeyError"
            /\ UNCHANGED <<df, calls, first, second, k>>
    /\ UNCHANGED <<cleanVars, extractVars, flowVars>>

\* line 156, apply(..., axis=1) at row k: one get_lat_long call, whose
\* result the geocoding service decides; the column is set after the last row
FirstPass ==
    /\ tpc = "first"
    /\ \E r \in GeoResults :
          /\ calls' = [calls EXCEPT ![k] = @ + 1]
          /\ first' = [first EXCEPT ![k] = r]
          /\ IF k = Len(df)
             THEN /\ df' = [n \in 1..Len(df) |->
                               [df[n] EXCEPT !.location = first'[n]]]
                  /\ tpc' = "cast"
                  /\ k' = 0
             ELSE /\ k' = k + 1
                  /\ UNCHANGED <<df, tpc>>
    /\ UNCHANGED <<second, err, cleanVars, extractVars, flowVars>>

\* geolocator.geocode raises (timeout, service unavailable): nothing catches it
GeocodeRaises ==
    /\ tpc = "first" \/ (tpc = "second" /\ k # 0)
    /\ calls' = [calls EXCEPT ![k] = @ + 1]
    /\ tpc' = "raised"
    /\ err' = "GeocoderServiceError"
    /\ UNCHANGED <<df, k, first, second, cleanVars, extractVars, flowVars>>

\* lines 157-161: the image default, astype(int), which raises ValueError on
\* a NaN or a non-numeric string, and the selection of the duplicates
CastAndSelect ==
    /\ tpc = "cast"
    /\ IF \A n \in 1..Len(df) : df[n].filled /\ IsIntLiteral(df[n].capacity)
       THEN /\ df' = [n \in 1..Len(df) |->
                         [df[n] EXCEPT !.images = FixImage(df[n]),
                                       !.capacity = ParseInt(df[n].capacity)]]
            /\ tpc' = "second"
            /\ k' = IF DuplicateRows(df) = {} THEN 0
                    ELSE CHOOSE n \in DuplicateRows(df) :
                             \A m \in DuplicateRows(df) : n <= m
            /\ UNCHANGED err
       ELSE /\ tpc' = "raised"
            /\ err' = "ValueError(astype)"
            /\ UNCHANGED <<df, k>>
    /\ UNCHANGED <<calls, first, second, cleanVars, extractVars, flowVars>>

\* line 162 at duplicate row k: the second get_lat_long call
SecondPass ==
    /\ tpc = "second"
    /\ k # 0
    /\ \E r \in GeoResults :
          /\ calls' = [calls EXCEPT ![k] = @ + 1]
          /\ second' = [second EXCEPT ![k] = r]
    /\ LET later == {n \in DuplicateRows(df) : n > k}
       IN  IF later = {}
           THEN tpc' = "update" /\ k' = 0
           ELSE /\ k' = CHOOSE n \in later : \A m \in later : n <= m
                /\ UNCHANGED tpc
    /\ UNCHANGED <<df, first, err, cleanVars, extractVars, flowVars>>

\* line 162 with no duplicate row: apply on a frame without rows returns,
\* depending on the pandas release, an empty Series (the assignment is a
\* no-op) or a copy of the frame (the assignment raises ValueError)
SecondPassEmpty ==
    /\ tpc = "second"
    /\ k = 0
    /\ \/ tpc' = "update" /\ UNCHANGED err
       \/ tpc' = "raised" /\ err' = "ValueError(setitem)"
    /\ UNCHANGED <<df, k, calls, first, second, cleanVars, extractVars, flowVars>>

\* lines 163-165: stadiums_df.update(duplicates); return stadiums_df
UpdateAndReturn ==
    /\ tpc = "update"
    /\ df' = [n \in 1..Len(df) |->
                 IF n \in DuplicateRows(df)
                 THEN [df[n] EXCEPT !.location = UpdateCell(@, second[n])]
                 ELSE df[n]]
    /\ tpc' = "done"
    /\ UNCHANGED <<k, calls, first, second, err, cleanVars, extractVars, flowVars>>

\* the row lists transform is handed: what the extractor returns for tables
\* of full rows with a numeric or a non-numeric capacity and of short rows
TransformKinds ==
    {FullKind, [n |-> 7, img |-> "none", cap |-> "nan"], [n |-> 2, img |-> "none", cap |-> "num"]}

ExtractAll(trs) == [n \in 1..(Len(trs) - 1) |-> RowDict(n, trs[n + 1])]

TransformInputs(max) == {ExtractAll(Trs(ks)) : ks \in SeqsUpTo(TransformKinds, max)}

InitTransform ==
    /\ data \in TransformInputs(MaxRecords)
    /\ html = << >> /\ table = 0 /\ rows = << >> /\ i = 0 /\ epc = "idle"
    /\ ftResult = [status |-> "idle", table |-> 0, data |-> << >>]
    /\ df = << >> /\ k = 0 /\ calls = << >> /\ first = << >> /\ second = << >>
    /\ tpc = "start"
    /\ err = ""
    /\ idleClean /\ idleFlow

NextTransform ==
    \/ TransformStart \/ FirstPass \/ GeocodeRaises \/ CastAndSelect
    \/ SecondPass \/ SecondPassEmpty \/ UpdateAndReturn

SpecTransform == InitTransform /\ [][NextTransform]_vars

---------------------------------------------------------------------------
(* Properties of transform_wikipedia_data, checked under SpecTransform     *)

\* row n shares its first-pass location with another row
InGroup(n) == \E m \in 1..Len(first) : m # n /\ first[m] = first[n]

\* row n has the first-pass location of an earlier row
RepeatsEarlier(n) == \E m \in 1..(n - 1) : first[m] = first[n]

C4_BadCapacityDoesNotAbort ==
    (\E n \in 1..Len(data) : data[n].filled /\ ~IsIntLiteral(data[n].capacity))
        => ~(tpc = "raised" /\ err = "ValueError(astype)")

\* C9: after the dedup pass the location of every re-queried record is the
\* result of its second call, an absent result included.
C9_LocationIsSecondResult ==
    tpc = "done" =>
        \A n \in 1..Len(df) : calls[n] = 2 => df[n].location = second[n]

---------------------------------------------------------------------------
(* wikipedia_data_pipeline, lines 168-183                                  *)

\* the str handed to the flow as `url`: the address of a page, or text that
\* is itself HTML markup; doc is what BeautifulSoup(text, 'html.parser')
\* finds in it, and the text of an address holds no <table>
WikiUrl ==
    [kind |-> "url",
     name |-> "https://en.wikipedia.org/wiki/List_of_association_football_stadiums_by_capacity",
     doc |-> << >>]

Markup(d) == [kind |-> "html", name |-> "", doc |-> d]

FlowKinds == TransformKinds \cup {[n |-> 3, img |-> "none", cap |-> "num"]}

FlowArgs(max) ==
    {WikiUrl}
    \cup {Markup(<<[cls |-> PRIMARY, trs |-> Trs(ks)]>>) : ks \in SeqsUpTo(FlowKinds, max)}
    \cup {Markup(<<[cls |-> {"standard"}, trs |-> Trs(<<FullKind>>)]>>)}

\* BeautifulSoup(html, 'html.parser') of line 90
Parse(t) == t.doc

\* line 178: data = extract_wikipedia_data(url)
FlowCallExtract ==
    /\ fpc = "start"
    /\ html' = Parse(url)
    /\ epc' = "start"
    /\ log' = Append(log, [stage |-> "extract", arg |-> url.name, from |-> "url argument"])
    /\ fpc' = "extract"
    /\ UNCHANGED <<table, rows, i, data, ftResult, err, url, csv,
                   cleanVars, transformVars>>

\* line 180 with data None: the flow ends without transforming or writing
FlowNoData ==
    /\ fpc = "extract"
    /\ epc = "none"
    /\ fpc' = "end"
    /\ UNCHANGED <<url, log, csv, err, cleanVars, extractVars, transformVars>>

\* lines 180-181: transformed_data = transform_wikipedia_data(data)
FlowCallTransform ==
    /\ fpc = "extract"
    /\ epc = "returned"
    /\ tpc' = "start"
    /\ log' = Append(log, [stage |-> "transform", arg |-> "data", from |-> "extract"])
    /\ fpc' = "transform"
    /\ UNCHANGED <<url, csv, err, df, k, calls, first, second, cleanVars, extractVars>>

\* lines 182-183: transformed_data.to_csv(output_file, index=False)
FlowPersist ==
    /\ fpc = "transform"
    /\ tpc = "done"
    /\ csv' = [written |-> TRUE, content |-> df]
    /\ log' = Append(log, [stage |-> "persist", arg |-> "transformed_data", from |-> "transform"])
    /\ fpc' = "end"
    /\ UNCHANGED <<url, err, cleanVars, extractVars, transformVars>>

\* an exception of extract or transform leaves the flow
FlowCrash ==
    /\ \/ fpc = "extract" /\ epc = "raised"
       \/ fpc = "transform" /\ tpc = "raised"
    /\ fpc' = "crashed"
    /\ UNCHANGED <<url, log, csv, err, cleanVars, extractVars, transformVars>>

InitFlow ==
    /\ url \in FlowArgs(MaxFlowRows)
    /\ fpc = "start"
    /\ log = << >>
    /\ csv = [written |-> FALSE, content |-> << >>]
    /\ err = ""
    /\ idleClean /\ idleExtract /\ idleTransform

NextFlow ==
    \/ FlowCallExtract \/ FlowNoData \/ FlowCallTransform \/ FlowPersist \/ FlowCrash
    \/ ExtractLocate \/ ExtractRow \/ ExtractReturn
    \/ TransformStart \/ FirstPass \/ GeocodeRaises \/ CastAndSelect
    \/ SecondPass \/ SecondPassEmpty \/ UpdateAndReturn

SpecFlow == InitFlow /\ [][NextFlow]_vars

\* stage s was called at position j of the log
CalledAt(j, s) == j \in 1..Len(log) /\ log[j].stage = s

\* C10: the stages run in the order fetch, extract, enrich, persist: given
\* the address of a page, the extractor is called only on the text a
\* completed fetch of that address returned, the enrichment only on the
\* extractor's records, the persistence only on the enrichment's output.
C10_StagesInOrder ==
    url.kind = "url" =>
        \A j \in 1..Len(log) :
            /\ CalledAt(j, "extract") =>
                  /\ \E f \in 1..(j - 1) : CalledAt(f, "fetch") /\ log[f].arg = url.name
                  /\ log[j].from = "fetch"
            /\ CalledAt(j, "transform") =>
                  /\ \E e \in 1..(j - 1) : CalledAt(e, "extract")
                  /\ log[j].from = "extract"
            /\ CalledAt(j, "persist") =>
                  /\ \E t \in 1..(j - 1) : CalledAt(t, "transform")
                  /\ log[j].from = "transform"

=============================================================================
